---- MODULE Spec2Model ----
(***************************************************************************)
(* SortedVectorSet<T> of shed/sorted_vector_map/src/set.rs: an ordered set *)
(* kept in a sorted Vec<T>.                                                *)
(*                                                                         *)
(* An element of T is a record [k, v]: Ord and Eq of T look at k only, v   *)
(* is the rest of the value, which tells two elements that compare equal   *)
(* apart (which of them a replace, a merge or a dedup keeps).  A query key *)
(* of type Q (T: Borrow<Q>) is a k.  Option<X> is a sequence of length at  *)
(* most one.  Indices are those of the code (from 0); the element at index *)
(* i of a vector s is s[i + 1].                                            *)
(***************************************************************************)
EXTENDS Integers, Sequences, FiniteSets, TLC

VARIABLES svs, call, fresh, bset

vars == <<svs, call, fresh, bset>>

\* Keys are 1..MaxKey.
MaxKey == 3
\* The sets compared for their canonical form are those at most MaxCalls
\* insert and remove calls build.
MaxCalls == 4

\* A batch handed to extend / from_iter holds at most MaxBatch elements.
MaxBatch == 3

Keys == 1..MaxKey
\* The two values an element with a given key can have.
Vals == {"a", "b"}
Elts == [k : Keys, v : Vals]

None == <<>>
Some(x) == <<x>>

\* T: Ord
Lt(a, b) == a.k < b.k
Gt(a, b) == a.k > b.k
Eq(a, b) == a.k = b.k
cmp(a, b) == IF a.k < b.k THEN "Less" ELSE IF a.k > b.k THEN "Greater" ELSE "Equal"

(***************************************************************************)
(* Vec<T> primitives the set calls.                                        *)
(***************************************************************************)
\* Vec::insert(index, value)
VecInsert(s, index, value) ==
    SubSeq(s, 1, index) \o <<value>> \o SubSeq(s, index + 1, Len(s))

\* Vec::remove(index): the vector without the element at index
VecRemove(s, index) ==
    SubSeq(s, 1, index) \o SubSeq(s, index + 2, Len(s))

\* Vec::split_off(at): [head |-> s[..at], tail |-> s[at..]]
VecSplitOff(s, at) ==
    [head |-> SubSeq(s, 1, at), tail |-> SubSeq(s, at + 1, Len(s))]

\* Vec::retain(f); the predicate f is the set of elements it accepts
RECURSIVE VecRetain(_, _)
VecRetain(s, f) ==
    IF s = <<>> THEN <<>>
    ELSE (IF Head(s) \in f THEN <<Head(s)>> ELSE <<>>) \o VecRetain(Tail(s), f)

(***************************************************************************)
(* find_index: binary search of the vector for the key q.                  *)
(* [ok |-> TRUE, index |-> i] is Ok(i), [ok |-> FALSE, index |-> i] Err(i).*)
(***************************************************************************)
RECURSIVE BinarySearch(_, _, _, _)
BinarySearch(s, q, lo, hi) ==
    IF lo >= hi THEN [ok |-> FALSE, index |-> lo]
    ELSE LET mid == lo + ((hi - lo) \div 2)
             e   == s[mid + 1]
         IN  IF e.k = q THEN [ok |-> TRUE, index |-> mid]
             ELSE IF e.k < q THEN BinarySearch(s, q, mid + 1, hi)
             ELSE BinarySearch(s, q, lo, mid)

find_index(s, q) == BinarySearch(s, q, 0, Len(s))

contains(s, q) == find_index(s, q).ok

get(s, q) ==
    LET r == find_index(s, q) IN IF r.ok THEN Some(s[r.index + 1]) ELSE None

len(s) == Len(s)
is_empty(s) == Len(s) = 0
iter(s) == s

(***************************************************************************)
(* range.  A Bound<&Q> is [kind, key]; key is 0 for Unbounded.             *)
(***************************************************************************)
Unbounded == [kind |-> "Unbounded", key |-> 0]
Included(q) == [kind |-> "Included", key |-> q]
Excluded(q) == [kind |-> "Excluded", key |-> q]
Bounds == {Unbounded} \cup {Included(q) : q \in Keys} \cup {Excluded(q) : q \in Keys}

range_index_start(s, b) ==
    IF b.kind = "Unbounded" THEN 0
    ELSE LET r == find_index(s, b.key)
         IN  IF b.kind = "Included"
             THEN (IF r.ok THEN r.index ELSE r.index)
             ELSE (IF r.ok THEN r.index + 1 ELSE r.index)


\* range_index_end without the + 1 of an inclusive bound that matches
range_index_end_NoPlusOne(s, b) ==
    IF b.kind = "Unbounded" THEN Len(s)
    ELSE LET r == find_index(s, b.key)
         IN  IF b.kind = "Included"
             THEN (IF r.ok THEN r.index ELSE r.index)
             ELSE (IF r.ok THEN r.index ELSE r.index)

range_index_end(s, b) ==
    IF b.kind = "Unbounded" THEN Len(s)
    ELSE LET r == find_index(s, b.key)
         IN  IF b.kind = "Included"
             THEN (IF r.ok THEN r.index + 1 ELSE r.index)
             ELSE (IF r.ok THEN r.index ELSE r.index)

\* range without the check of start against end: an empty slice for a panic
range_NoCheck(s, sb, eb) ==
    LET start == range_index_start(s, sb)
        end   == range_index_end(s, eb)
    IN  [panic |-> FALSE, start |-> start, end |-> end,
         items |-> SubSeq(s, start + 1, end)]

\* range that takes an empty range for an inverted one
range_PanicOnEmpty(s, sb, eb) ==
    LET start == range_index_start(s, sb)
        end   == range_index_end(s, eb)
    IN  IF start >= end
        THEN [panic |-> TRUE, start |-> start, end |-> end, items |-> <<>>]
        ELSE [panic |-> FALSE, start |-> start, end |-> end,
              items |-> SubSeq(s, start + 1, end)]

\* range(start_bound, end_bound): a panic, or the slice self.0[start..end]
range(s, sb, eb) ==
    LET start == range_index_start(s, sb)
        end   == range_index_end(s, eb)
    IN  IF start > end
        THEN [panic |-> TRUE, start |-> start, end |-> end, items |-> <<>>]
        ELSE [panic |-> FALSE, start |-> start, end |-> end,
              items |-> SubSeq(s, start + 1, end)]

(***************************************************************************)
(* The set-algebra iterators.  An OperationInner is [left, right], what is *)
(* left of the two peekable slice iterators.  A next returns the item (an  *)
(* Option) and the iterator after the call.                                *)
(***************************************************************************)
OperationInner(s, o) == [left |-> iter(s), right |-> iter(o)]

\* OperationInner::next that advances only left when the two keys are equal
OperationInnerNext_LeftOnly(st) ==
    IF st.left = <<>> /\ st.right = <<>> THEN [item |-> None, st |-> st]
    ELSE LET res == IF st.left # <<>> /\ st.right # <<>>
                    THEN cmp(Head(st.left), Head(st.right))
                    ELSE IF st.left # <<>> THEN "Less" ELSE "Greater"
         IN  IF res = "Less"
             THEN [item |-> Some(<<Some(Head(st.left)), None>>),
                   st |-> [st EXCEPT !.left = Tail(st.left)]]
             ELSE IF res = "Greater"
             THEN [item |-> Some(<<None, Some(Head(st.right))>>),
                   st |-> [st EXCEPT !.right = Tail(st.right)]]
             ELSE [item |-> Some(<<Some(Head(st.left)), Some(Head(st.right))>>),
                   st |-> [st EXCEPT !.left = Tail(st.left)]]

OperationInnerNext(st) ==
    IF st.left = <<>> /\ st.right = <<>> THEN [item |-> None, st |-> st]
    ELSE LET res == IF st.left # <<>> /\ st.right # <<>>
                    THEN cmp(Head(st.left), Head(st.right))
                    ELSE IF st.left # <<>> THEN "Less" ELSE "Greater"
         IN  IF res = "Less"
             THEN [item |-> Some(<<Some(Head(st.left)), None>>),
                   st |-> [st EXCEPT !.left = Tail(st.left)]]
             ELSE IF res = "Greater"
             THEN [item |-> Some(<<None, Some(Head(st.right))>>),
                   st |-> [st EXCEPT !.right = Tail(st.right)]]
             ELSE [item |-> Some(<<Some(Head(st.left)), Some(Head(st.right))>>),
                   st |-> [left |-> Tail(st.left), right |-> Tail(st.right)]]

difference(s, o) == OperationInner(s, o)
symmetric_difference(s, o) == OperationInner(s, o)
intersection(s, o) == OperationInner(s, o)
union(s, o) == OperationInner(s, o)

\* Difference::next that also returns the elements of right alone
RECURSIVE DifferenceNext_AlsoRight(_)
DifferenceNext_AlsoRight(st) ==
    LET n == OperationInnerNext(st)
    IN  IF n.item = None THEN [item |-> None, st |-> n.st]
        ELSE LET l == n.item[1][1]
                 r == n.item[1][2]
             IN  IF l # None /\ r = None THEN [item |-> l, st |-> n.st]
                 ELSE IF l = None /\ r # None THEN [item |-> r, st |-> n.st]
                 ELSE DifferenceNext_AlsoRight(n.st)

RECURSIVE DifferenceNext(_)
DifferenceNext(st) ==
    LET n == OperationInnerNext(st)
    IN  IF n.item = None THEN [item |-> None, st |-> n.st]
        ELSE LET l == n.item[1][1]
                 r == n.item[1][2]
             IN  IF l # None /\ r = None THEN [item |-> l, st |-> n.st]
                 ELSE DifferenceNext(n.st)

RECURSIVE IntersectionNext(_)
IntersectionNext(st) ==
    LET n == OperationInnerNext(st)
    IN  IF n.item = None THEN [item |-> None, st |-> n.st]
        ELSE LET l == n.item[1][1]
                 r == n.item[1][2]
             IN  IF l # None /\ r # None THEN [item |-> l, st |-> n.st]
                 ELSE IntersectionNext(n.st)


\* SymmetricDifference::next without the elements of right alone
RECURSIVE SymmetricDifferenceNext_LeftOnly(_)
SymmetricDifferenceNext_LeftOnly(st) ==
    LET n == OperationInnerNext(st)
    IN  IF n.item = None THEN [item |-> None, st |-> n.st]
        ELSE LET l == n.item[1][1]
                 r == n.item[1][2]
             IN  IF l # None /\ r = None THEN [item |-> l, st |-> n.st]
                 ELSE SymmetricDifferenceNext_LeftOnly(n.st)

RECURSIVE SymmetricDifferenceNext(_)
SymmetricDifferenceNext(st) ==
    LET n == OperationInnerNext(st)
    IN  IF n.item = None THEN [item |-> None, st |-> n.st]
        ELSE LET l == n.item[1][1]
                 r == n.item[1][2]
             IN  IF l # None /\ r = None THEN [item |-> l, st |-> n.st]
                 ELSE IF l = None /\ r # None THEN [item |-> r, st |-> n.st]
                 ELSE SymmetricDifferenceNext(n.st)

\* Union::next that skips the elements both sides have
RECURSIVE UnionNext_SkipBoth(_)
UnionNext_SkipBoth(st) ==
    LET n == OperationInnerNext(st)
    IN  IF n.item = None THEN [item |-> None, st |-> n.st]
        ELSE LET l == n.item[1][1]
                 r == n.item[1][2]
             IN  IF l = None /\ r # None THEN [item |-> r, st |-> n.st]
                 ELSE IF l # None /\ r = None THEN [item |-> l, st |-> n.st]
                 ELSE UnionNext_SkipBoth(n.st)

RECURSIVE UnionNext(_)
UnionNext(st) ==
    LET n == OperationInnerNext(st)
    IN  IF n.item = None THEN [item |-> None, st |-> n.st]
        ELSE LET l == n.item[1][1]
                 r == n.item[1][2]
             IN  IF r # None THEN [item |-> r, st |-> n.st]
                 ELSE IF l # None THEN [item |-> l, st |-> n.st]
                 ELSE UnionNext(n.st)

\* What an iterator yields, next after next, until it returns None
RECURSIVE DifferenceItems(_)
DifferenceItems(st) ==
    LET n == DifferenceNext(st)
    IN  IF n.item = None THEN <<>> ELSE n.item \o DifferenceItems(n.st)

RECURSIVE SymmetricDifferenceItems(_)
SymmetricDifferenceItems(st) ==
    LET n == SymmetricDifferenceNext(st)
    IN  IF n.item = None THEN <<>> ELSE n.item \o SymmetricDifferenceItems(n.st)

RECURSIVE IntersectionItems(_)
IntersectionItems(st) ==
    LET n == IntersectionNext(st)
    IN  IF n.item = None THEN <<>> ELSE n.item \o IntersectionItems(n.st)

RECURSIVE UnionItems(_)
UnionItems(st) ==
    LET n == UnionNext(st)
    IN  IF n.item = None THEN <<>> ELSE n.item \o UnionItems(n.st)

(***************************************************************************)
(* size_hint.  A hint is [low, high], high an Option.  The hint of a       *)
(* Peekable over a slice iterator is exact: what is left, the peeked       *)
(* element included.  The lengths of two slices never add up to more than  *)
(* usize::MAX, so checked_add is always Some.                              *)
(***************************************************************************)
Min(a, b) == IF a < b THEN a ELSE b
Max(a, b) == IF a > b THEN a ELSE b
saturating_sub(a, b) == IF a > b THEN a - b ELSE 0
checked_add(a, b) == Some(a + b)

PeekableSizeHint(it) == [low |-> Len(it), high |-> Some(Len(it))]

\* Difference::size_hint without the subtraction of what right can take away
DifferenceSizeHint_NoSub(st) ==
    LET left_hint  == PeekableSizeHint(st.left)
        right_hint == PeekableSizeHint(st.right)
    IN  [low |-> left_hint.low, high |-> left_hint.high]

DifferenceSizeHint(st) ==
    LET left_hint  == PeekableSizeHint(st.left)
        right_hint == PeekableSizeHint(st.right)
    IN  [low  |-> IF right_hint.high # None
                  THEN saturating_sub(left_hint.low, right_hint.high[1])
                  ELSE 0,
         high |-> left_hint.high]

SymmetricDifferenceSizeHint(st) ==
    LET left_hint  == PeekableSizeHint(st.left)
        right_hint == PeekableSizeHint(st.right)
    IN  [low  |-> 0,
         high |-> IF left_hint.high # None /\ right_hint.high # None
                  THEN checked_add(left_hint.high[1], right_hint.high[1])
                  ELSE None]

IntersectionSizeHint(st) ==
    LET left_hint  == PeekableSizeHint(st.left)
        right_hint == PeekableSizeHint(st.right)
    IN  [low  |-> 0,
         high |-> IF left_hint.high # None /\ right_hint.high # None
                  THEN Some(Min(left_hint.high[1], right_hint.high[1]))
                  ELSE None]

UnionSizeHint(st) ==
    LET left_hint  == PeekableSizeHint(st.left)
        right_hint == PeekableSizeHint(st.right)
    IN  [low  |-> Max(left_hint.low, right_hint.low),
         high |-> IF left_hint.high # None /\ right_hint.high # None
                  THEN checked_add(left_hint.high[1], right_hint.high[1])
                  ELSE None]

(***************************************************************************)
(* An iterator a caller holds and drives, one turn of the for loop of its  *)
(* next at a time.  It is [st, item, steps, at]: the OperationInner, the   *)
(* item of the latest turn, the turns that consumed an element, and where  *)
(* the caller is: "new" (no next yet), "in_next" (the turn went on to      *)
(* continue), "yielded" (next returned Some) or "done" (next returned      *)
(* None).                                                                  *)
(***************************************************************************)
IterKinds == {"difference", "symmetric_difference", "intersection", "union"}

\* The match of each next on what the OperationInner gave: the element it
\* returns, or None when it continues.
Match(kind, pair) ==
    LET l == pair[1]
        r == pair[2]
    IN  CASE kind = "difference" ->
                IF l # None /\ r = None THEN l ELSE None
          [] kind = "symmetric_difference" ->
                IF l # None /\ r = None THEN l
                ELSE IF l = None /\ r # None THEN r ELSE None
          [] kind = "intersection" ->
                IF l # None /\ r # None THEN l ELSE None
          [] kind = "union" ->
                IF r # None THEN r ELSE IF l # None THEN l ELSE None

NewIter(s, o) == [st |-> OperationInner(s, o), item |-> None, steps |-> 0, at |-> "new"]

\* A turn that goes on to continue without having taken what it looked at
LoopTurn_NoAdvance(kind, it) ==
    LET n == OperationInnerNext(it.st)
    IN  IF n.item = None
        THEN [st |-> n.st, item |-> None, steps |-> it.steps, at |-> "done"]
        ELSE LET m == Match(kind, n.item[1])
             IN  IF m # None
                 THEN [st |-> n.st, item |-> m, steps |-> it.steps + 1, at |-> "yielded"]
                 ELSE [st |-> it.st, item |-> m, steps |-> it.steps + 1, at |-> "in_next"]

LoopTurn(kind, it) ==
    LET n == OperationInnerNext(it.st)
    IN  IF n.item = None
        THEN [st |-> n.st, item |-> None, steps |-> it.steps, at |-> "done"]
        ELSE LET m == Match(kind, n.item[1])
             IN  [st |-> n.st, item |-> m, steps |-> it.steps + 1,
                  at |-> IF m # None THEN "yielded" ELSE "in_next"]

size_hint(kind, st) ==
    CASE kind = "difference" -> DifferenceSizeHint(st)
      [] kind = "symmetric_difference" -> SymmetricDifferenceSizeHint(st)
      [] kind = "intersection" -> IntersectionSizeHint(st)
      [] kind = "union" -> UnionSizeHint(st)

\* What the iterator will still yield
Items(kind, st) ==
    CASE kind = "difference" -> DifferenceItems(st)
      [] kind = "symmetric_difference" -> SymmetricDifferenceItems(st)
      [] kind = "intersection" -> IntersectionItems(st)
      [] kind = "union" -> UnionItems(st)

\* is_disjoint that looks at the difference instead of the intersection
is_disjoint_Difference(s, o) == DifferenceNext(difference(s, o)).item = None

is_disjoint(s, o) == IntersectionNext(intersection(s, o)).item = None

is_subset(s, o) == DifferenceNext(difference(o, s)).item = None

is_superset(s, o) == is_subset(o, s)

(***************************************************************************)
(* The mutators.  Each returns the vector(s) after the call and the value  *)
(* the call returns.                                                       *)
(***************************************************************************)

\* replace with the miss of the binary search pushed at the end of the vector
replace_PushOnMiss(s, value) ==
    LET n == Len(s)
    IN  IF n = 0 \/ Lt(s[n], value)
        THEN [vec |-> Append(s, value), ret |-> None]
        ELSE LET r == find_index(s, value.k)
             IN  IF r.ok
                 THEN [vec |-> [s EXCEPT ![r.index + 1] = value],
                       ret |-> Some(s[r.index + 1])]
                 ELSE [vec |-> Append(s, value), ret |-> None]

\* replace that leaves the stored element in place on a match
replace_KeepStored(s, value) ==
    LET n == Len(s)
    IN  IF n = 0 \/ Lt(s[n], value)
        THEN [vec |-> Append(s, value), ret |-> None]
        ELSE LET r == find_index(s, value.k)
             IN  IF r.ok
                 THEN [vec |-> s, ret |-> Some(value)]
                 ELSE [vec |-> VecInsert(s, r.index, value), ret |-> None]

\* replace that returns the new value, not the one it replaced
replace_ReturnNew(s, value) ==
    LET n == Len(s)
    IN  IF n = 0 \/ Lt(s[n], value)
        THEN [vec |-> Append(s, value), ret |-> None]
        ELSE LET r == find_index(s, value.k)
             IN  IF r.ok
                 THEN [vec |-> [s EXCEPT ![r.index + 1] = value],
                       ret |-> Some(value)]
                 ELSE [vec |-> VecInsert(s, r.index, value), ret |-> None]

replace(s, value) ==
    LET n == Len(s)
    IN  IF n = 0 \/ Lt(s[n], value)
        THEN [vec |-> Append(s, value), ret |-> None]
        ELSE LET r == find_index(s, value.k)
             IN  IF r.ok
                 THEN [vec |-> [s EXCEPT ![r.index + 1] = value],
                       ret |-> Some(s[r.index + 1])]
                 ELSE [vec |-> VecInsert(s, r.index, value), ret |-> None]


\* insert with is_some() for is_none()
insert_IsSome(s, value) ==
    LET r == replace(s, value) IN [vec |-> r.vec, ret |-> (r.ret # None)]

insert(s, value) ==
    LET r == replace(s, value) IN [vec |-> r.vec, ret |-> (r.ret = None)]


\* take that removes the element at the insertion point on a miss
take_RemoveOnMiss(s, q) ==
    LET r == find_index(s, q)
    IN  IF r.ok
        THEN [vec |-> VecRemove(s, r.index), ret |-> Some(s[r.index + 1])]
        ELSE [vec |-> VecRemove(s, r.index), ret |-> None]

\* take that returns the element without removing it
take_NoRemove(s, q) ==
    LET r == find_index(s, q)
    IN  IF r.ok
        THEN [vec |-> s, ret |-> Some(s[r.index + 1])]
        ELSE [vec |-> s, ret |-> None]

take(s, q) ==
    LET r == find_index(s, q)
    IN  IF r.ok
        THEN [vec |-> VecRemove(s, r.index), ret |-> Some(s[r.index + 1])]
        ELSE [vec |-> s, ret |-> None]

remove(s, q) ==
    LET r == take(s, q) IN [vec |-> r.vec, ret |-> (r.ret # None)]

\* retain that keeps what the predicate rejects
retain_Inverted(s, f) == VecRetain(s, Elts \ f)

retain(s, f) == VecRetain(s, f)

\* split_off that splits after the element equal to the key
split_off_AfterKey(s, q) ==
    LET r     == find_index(s, q)
        index == IF r.ok THEN r.index + 1 ELSE r.index
        sp    == VecSplitOff(s, index)
    IN  [vec |-> sp.head, ret |-> sp.tail]

split_off(s, q) ==
    LET r     == find_index(s, q)
        index == IF r.ok THEN r.index ELSE r.index
        sp    == VecSplitOff(s, index)
    IN  [vec |-> sp.head, ret |-> sp.tail]

first(s) == IF s = <<>> THEN None ELSE Some(s[1])

last(s) == IF s = <<>> THEN None ELSE Some(s[Len(s)])

\* pop_last that takes the element at the front
pop_last_Front(s) ==
    IF s = <<>> THEN [vec |-> s, ret |-> None]
    ELSE [vec |-> Tail(s), ret |-> Some(Head(s))]

pop_last(s) ==
    IF s = <<>> THEN [vec |-> s, ret |-> None]
    ELSE [vec |-> SubSeq(s, 1, Len(s) - 1), ret |-> Some(s[Len(s)])]

clear(s) == <<>>

(***************************************************************************)
(* DedupIter and MergeIter.  A DedupIter is what is left of its peekable   *)
(* iterator; a MergeIter is [left, right], right being a DedupIter.        *)
(***************************************************************************)
RECURSIVE DedupSkip(_, _)
DedupSkip(next, it) ==
    IF it = <<>> THEN [item |-> Some(next), iter |-> it]
    ELSE IF Gt(Head(it), next) THEN [item |-> Some(next), iter |-> it]
    ELSE DedupSkip(Head(it), Tail(it))

DedupIterNext(it) ==
    IF it = <<>> THEN [item |-> None, iter |-> it]
    ELSE DedupSkip(Head(it), Tail(it))

RECURSIVE DedupCollect(_)
DedupCollect(it) ==
    LET n == DedupIterNext(it)
    IN  IF n.item = None THEN <<>> ELSE n.item \o DedupCollect(n.iter)

\* MergeIter::next that takes the value from left when the two keys are equal
MergeIterNext_LeftWins(m) ==
    IF m.left = <<>> /\ m.right = <<>> THEN [item |-> None, m |-> m]
    ELSE LET res == IF m.left # <<>> /\ m.right # <<>>
                    THEN cmp(Head(m.left), Head(m.right))
                    ELSE IF m.left # <<>> THEN "Less" ELSE "Greater"
             rn  == DedupIterNext(m.right)
         IN  IF res = "Less"
             THEN [item |-> Some(Head(m.left)), m |-> [m EXCEPT !.left = Tail(m.left)]]
             ELSE IF res = "Greater"
             THEN [item |-> rn.item, m |-> [m EXCEPT !.right = rn.iter]]
             ELSE [item |-> Some(Head(m.left)),
                   m |-> [left |-> Tail(m.left), right |-> rn.iter]]

MergeIterNext(m) ==
    IF m.left = <<>> /\ m.right = <<>> THEN [item |-> None, m |-> m]
    ELSE LET res == IF m.left # <<>> /\ m.right # <<>>
                    THEN cmp(Head(m.left), Head(m.right))
                    ELSE IF m.left # <<>> THEN "Less" ELSE "Greater"
             rn  == DedupIterNext(m.right)
         IN  IF res = "Less"
             THEN [item |-> Some(Head(m.left)), m |-> [m EXCEPT !.left = Tail(m.left)]]
             ELSE IF res = "Greater"
             THEN [item |-> rn.item, m |-> [m EXCEPT !.right = rn.iter]]
             ELSE [item |-> rn.item, m |-> [left |-> Tail(m.left), right |-> rn.iter]]

RECURSIVE MergeCollect(_)
MergeCollect(m) ==
    LET n == MergeIterNext(m)
    IN  IF n.item = None THEN <<>> ELSE n.item \o MergeCollect(n.m)

MergeIter(left, right) == [left |-> left, right |-> right]

append(s, o) ==
    IF is_empty(o) THEN [self |-> s, other |-> o]
    ELSE IF is_empty(s) THEN [self |-> o, other |-> s]
    ELSE [self |-> MergeCollect(MergeIter(s, o)), other |-> <<>>]

\* An unstable sort: an element goes before the placed elements equal to it
SortInsert_BeforeEqual(sorted, x) ==
    VecInsert(sorted, Cardinality({i \in 1..Len(sorted) : Lt(sorted[i], x)}), x)

\* slice::sort, a stable sort: each element goes after the elements already
\* placed that are not greater than it
SortInsert(sorted, x) ==
    VecInsert(sorted, Cardinality({i \in 1..Len(sorted) : ~Gt(sorted[i], x)}), x)

RECURSIVE sort(_)
sort(s) ==
    IF s = <<>> THEN <<>>
    ELSE SortInsert(sort(SubSeq(s, 1, Len(s) - 1)), s[Len(s)])

\* The position of the last pair of equal neighbours, for that of the first
FirstDup_Last(new) ==
    LET D == {i \in 0..(Len(new) - 2) : Eq(new[i + 1], new[i + 2])}
    IN  IF D = {} THEN None ELSE Some(CHOOSE i \in D : \A j \in D : i >= j)

\* new.iter().tuple_windows().position(|(a, b)| a == b)
FirstDup(new) ==
    LET D == {i \in 0..(Len(new) - 2) : Eq(new[i + 1], new[i + 2])}
    IN  IF D = {} THEN None ELSE Some(CHOOSE i \in D : \A j \in D : i <= j)

\* extend_with_vec that appends a batch above the maximum without the dedup
extend_with_vec_NoDedup(s, batch) ==
    IF batch = <<>> THEN s
    ELSE IF Len(batch) = 1 THEN insert(s, batch[1]).vec
    ELSE LET new == sort(batch)
             dup == FirstDup(new)
             sp  == VecSplitOff(new, dup[1])
         IN  IF s = <<>>
             THEN (IF dup # None THEN sp.head \o DedupCollect(sp.tail) ELSE new)
             ELSE IF Lt(s[Len(s)], new[1])
             THEN s \o new
             ELSE MergeCollect(MergeIter(s, new))

extend_with_vec(s, batch) ==
    IF batch = <<>> THEN s
    ELSE IF Len(batch) = 1 THEN insert(s, batch[1]).vec
    ELSE LET new == sort(batch)
             dup == FirstDup(new)
             sp  == VecSplitOff(new, dup[1])
         IN  IF s = <<>>
             THEN (IF dup # None THEN sp.head \o DedupCollect(sp.tail) ELSE new)
             ELSE IF Lt(s[Len(s)], new[1])
             THEN (IF dup # None
                   THEN (s \o sp.head) \o DedupCollect(sp.tail)
                   ELSE s \o new)
             ELSE MergeCollect(MergeIter(s, new))

extend(s, batch) == extend_with_vec(s, batch)

from_iter(batch) == extend(<<>>, batch)

\* The operators: self.intersection(rhs).cloned().collect() and the like.
bitand(s, rhs) == from_iter(IntersectionItems(intersection(s, rhs)))

\* self - rhs taken the other way round
sub_Swapped(s, rhs) == from_iter(DifferenceItems(difference(rhs, s)))

sub(s, rhs) == from_iter(DifferenceItems(difference(s, rhs)))

bitxor(s, rhs) == from_iter(SymmetricDifferenceItems(symmetric_difference(s, rhs)))

bitor(s, rhs) == from_iter(UnionItems(union(s, rhs)))

(***************************************************************************)
(* The state machine: one set, svs, and the calls a caller can make on it. *)
(* call records the latest call: its name, its argument, the set before it *)
(* (self0), the second set of a two-set call before (other0) and after it  *)
(* (other1), and what it returned (ret).                                   *)
(* bset is the reference ordered set of the like_btreeset tests, given the *)
(* same inserts as svs for as long as svs has only been inserted into      *)
(* (fresh).                                                                *)
(***************************************************************************)
\* Every batch of at most MaxBatch elements, in any order, repeats included.
Batches == UNION {[1..n -> Elts] : n \in 0..MaxBatch}

\* The derived PartialEq: the vectors compare equal, element by element.
eq(a, b) ==
    /\ Len(a) = Len(b)
    /\ \A i \in 1..Len(a) : Eq(a[i], b[i])

\* The sets a second operand can be: whatever from_iter builds from a batch.
OtherSets == {from_iter(b) : b \in Batches}

\* The predicates handed to retain, each the set of elements it accepts.
Predicates == SUBSET Elts

Call(op, arg, self0, other0, other1, ret) ==
    [op |-> op, arg |-> arg, self0 |-> self0, other0 |-> other0,
     other1 |-> other1, ret |-> ret]

\* The reference set: an element replaces the one with an equal key.
RefInsert(b, e) == {x \in b : x.k # e.k} \cup {e}

RECURSIVE RefIter(_)
RefIter(b) ==
    IF b = {} THEN <<>>
    ELSE LET m == CHOOSE x \in b : \A y \in b : x.k <= y.k
         IN  <<m>> \o RefIter(b \ {m})

\* Collecting a sequence into the reference set.
RECURSIVE BTreeSetCollect(_)
BTreeSetCollect(seq) ==
    IF seq = <<>> THEN {}
    ELSE RefInsert(BTreeSetCollect(SubSeq(seq, 1, Len(seq) - 1)), seq[Len(seq)])

\* From<BTreeSet>: the elements in the order the reference set iterates
\* them, taken as the vector with no sort and no dedup.
from(b) == RefIter(b)

\* svs1.clone().into_iter().collect() into a reference set, and back.
roundtrip_via_btreeset(svs1) == from(BTreeSetCollect(iter(svs1)))

NoCall == Call("none", <<>>, <<>>, <<>>, <<>>, <<>>)

\* No call is in progress: the caller is free to make the next one.
Idle == call.op = "none"

Init ==
    /\ svs = <<>>
    /\ call = Call("new", <<>>, <<>>, <<>>, <<>>, <<>>)
    /\ fresh = TRUE
    /\ bset = {}

Mutated == fresh' = FALSE /\ bset' = {}

Insert ==
    /\ Idle
    /\ \E e \in Elts :
            LET r == insert(svs, e)
            IN  /\ svs' = r.vec
                /\ call' = Call("insert", e, svs, <<>>, <<>>, r.ret)
                /\ fresh' = fresh
                /\ bset' = IF fresh THEN RefInsert(bset, e) ELSE {}

Replace ==
    /\ Idle
    /\ \E e \in Elts :
            LET r == replace(svs, e)
            IN  /\ svs' = r.vec
                /\ call' = Call("replace", e, svs, <<>>, <<>>, r.ret)
                /\ Mutated

Remove ==
    /\ Idle
    /\ \E q \in Keys :
            LET r == remove(svs, q)
            IN  /\ svs' = r.vec
                /\ call' = Call("remove", q, svs, <<>>, <<>>, r.ret)
                /\ Mutated

Take ==
    /\ Idle
    /\ \E q \in Keys :
            LET r == take(svs, q)
            IN  /\ svs' = r.vec
                /\ call' = Call("take", q, svs, <<>>, <<>>, r.ret)
                /\ Mutated

Retain ==
    /\ Idle
    /\ \E f \in Predicates :
            /\ svs' = retain(svs, f)
            /\ call' = Call("retain", f, svs, <<>>, <<>>, <<>>)
            /\ Mutated

AppendOther ==
    /\ Idle
    /\ \E o \in OtherSets :
            LET r == append(svs, o)
            IN  /\ svs' = r.self
                /\ call' = Call("append", <<>>, svs, o, r.other, <<>>)
                /\ Mutated

SplitOff ==
    /\ Idle
    /\ \E q \in Keys :
            LET r == split_off(svs, q)
            IN  /\ svs' = r.vec
                /\ call' = Call("split_off", q, svs, <<>>, <<>>, r.ret)
                /\ Mutated

Extend ==
    /\ Idle
    /\ \E b \in Batches :
            /\ svs' = extend(svs, b)
            /\ call' = Call("extend", b, svs, <<>>, <<>>, <<>>)
            /\ Mutated

PopLast ==
    /\ Idle
    /\ LET r == pop_last(svs)
        IN  /\ svs' = r.vec
            /\ call' = Call("pop_last", <<>>, svs, <<>>, <<>>, r.ret)
            /\ Mutated

Clear ==
    /\ Idle
    /\ /\ svs' = clear(svs)
        /\ call' = Call("clear", <<>>, svs, <<>>, <<>>, <<>>)
        /\ Mutated

Contains ==
    /\ Idle
    /\ \E q \in Keys :
            /\ call' = Call("contains", q, svs, <<>>, <<>>, contains(svs, q))
            /\ UNCHANGED <<svs, fresh, bset>>

\* A get that takes the element out of the vector to hand it over
Get_Taking ==
    /\ Idle
    /\ \E q \in Keys :
            LET r == take(svs, q)
            IN  /\ svs' = r.vec
                /\ call' = Call("get", q, svs, <<>>, <<>>, r.ret)
                /\ Mutated

Get ==
    /\ Idle
    /\ \E q \in Keys :
            /\ call' = Call("get", q, svs, <<>>, <<>>, get(svs, q))
            /\ UNCHANGED <<svs, fresh, bset>>

Range ==
    /\ Idle
    /\ \E sb \in Bounds, eb \in Bounds :
            /\ call' = Call("range", <<sb, eb>>, svs, <<>>, <<>>, range(svs, sb, eb))
            /\ UNCHANGED <<svs, fresh, bset>>

IsDisjoint ==
    /\ Idle
    /\ \E o \in OtherSets :
            /\ call' = Call("is_disjoint", <<>>, svs, o, o, is_disjoint(svs, o))
            /\ UNCHANGED <<svs, fresh, bset>>

IsSubset ==
    /\ Idle
    /\ \E o \in OtherSets :
            /\ call' = Call("is_subset", <<>>, svs, o, o, is_subset(svs, o))
            /\ UNCHANGED <<svs, fresh, bset>>

IsSuperset ==
    /\ Idle
    /\ \E o \in OtherSets :
            /\ call' = Call("is_superset", <<>>, svs, o, o, is_superset(svs, o))
            /\ UNCHANGED <<svs, fresh, bset>>

Difference ==
    /\ Idle
    /\ \E o \in OtherSets :
            /\ call' = Call("difference", <<>>, svs, o, o,
                            DifferenceItems(difference(svs, o)))
            /\ UNCHANGED <<svs, fresh, bset>>

SymmetricDifference ==
    /\ Idle
    /\ \E o \in OtherSets :
            /\ call' = Call("symmetric_difference", <<>>, svs, o, o,
                            SymmetricDifferenceItems(symmetric_difference(svs, o)))
            /\ UNCHANGED <<svs, fresh, bset>>

Intersection ==
    /\ Idle
    /\ \E o \in OtherSets :
            /\ call' = Call("intersection", <<>>, svs, o, o,
                            IntersectionItems(intersection(svs, o)))
            /\ UNCHANGED <<svs, fresh, bset>>

Union ==
    /\ Idle
    /\ \E o \in OtherSets :
            /\ call' = Call("union", <<>>, svs, o, o, UnionItems(union(svs, o)))
            /\ UNCHANGED <<svs, fresh, bset>>

\* self & rhs, self | rhs, self ^ rhs, self - rhs, on references.
BitAnd ==
    /\ Idle
    /\ \E o \in OtherSets :
            /\ call' = Call("bitand", <<>>, svs, o, o, bitand(svs, o))
            /\ UNCHANGED <<svs, fresh, bset>>

BitOr ==
    /\ Idle
    /\ \E o \in OtherSets :
            /\ call' = Call("bitor", <<>>, svs, o, o, bitor(svs, o))
            /\ UNCHANGED <<svs, fresh, bset>>

BitXor ==
    /\ Idle
    /\ \E o \in OtherSets :
            /\ call' = Call("bitxor", <<>>, svs, o, o, bitxor(svs, o))
            /\ UNCHANGED <<svs, fresh, bset>>

Sub ==
    /\ Idle
    /\ \E o \in OtherSets :
            /\ call' = Call("sub", <<>>, svs, o, o, sub(svs, o))
            /\ UNCHANGED <<svs, fresh, bset>>

First ==
    /\ Idle
    /\ call' = Call("first", <<>>, svs, <<>>, <<>>, first(svs))
    /\ UNCHANGED <<svs, fresh, bset>>

Last ==
    /\ Idle
    /\ call' = Call("last", <<>>, svs, <<>>, <<>>, last(svs))
    /\ UNCHANGED <<svs, fresh, bset>>

Iter ==
    /\ Idle
    /\ call' = Call("iter", <<>>, svs, <<>>, <<>>, iter(svs))
    /\ UNCHANGED <<svs, fresh, bset>>

Length ==
    /\ Idle
    /\ call' = Call("len", <<>>, svs, <<>>, <<>>, len(svs))
    /\ UNCHANGED <<svs, fresh, bset>>

IsEmpty ==
    /\ Idle
    /\ call' = Call("is_empty", <<>>, svs, <<>>, <<>>, is_empty(svs))
    /\ UNCHANGED <<svs, fresh, bset>>

\* The set goes to a reference set and comes back.
RoundTrip ==
    /\ Idle
    /\ call' = Call("roundtrip", <<>>, svs, <<>>, <<>>, roundtrip_via_btreeset(svs))
    /\ UNCHANGED <<svs, fresh, bset>>

\* The caller takes one of the four iterators and keeps it.
IterStart ==
    /\ Idle
    /\ \E kind \in IterKinds, o \in OtherSets :
            /\ call' = Call("iterating", kind, svs, o, o, NewIter(svs, o))
            /\ UNCHANGED <<svs, fresh, bset>>

\* One turn of the loop of next on the iterator the caller holds.
IterTurn ==
    /\ call.op = "iterating"
    /\ call.ret.at # "done"
    /\ call' = [call EXCEPT !.ret = LoopTurn(call.arg, call.ret)]
    /\ UNCHANGED <<svs, fresh, bset>>

\* The caller is done with what the latest call returned.
Return ==
    /\ ~Idle
    /\ call' = NoCall
    /\ UNCHANGED <<svs, fresh, bset>>

Next ==
    \/ Return
    \/ Insert
    \/ Replace
    \/ Remove
    \/ Take
    \/ Retain
    \/ AppendOther
    \/ SplitOff
    \/ Extend
    \/ PopLast
    \/ Clear
    \/ Contains
    \/ Get
    \/ Range
    \/ IsDisjoint
    \/ IsSubset
    \/ IsSuperset
    \/ Difference
    \/ SymmetricDifference
    \/ Intersection
    \/ Union
    \/ BitAnd
    \/ BitOr
    \/ BitXor
    \/ Sub
    \/ First
    \/ Last
    \/ Iter
    \/ Length
    \/ IsEmpty
    \/ RoundTrip
    \/ IterStart
    \/ IterTurn

Spec == Init /\ [][Next]_vars

(***************************************************************************)
(* What the properties are stated with.                                    *)
(***************************************************************************)
StrictlyAscending(s) == \A i \in 1..(Len(s) - 1) : s[i].k < s[i + 1].k

KeySet(s) == {s[i].k : i \in 1..Len(s)}

EltSet(s) == {s[i] : i \in 1..Len(s)}

\* The elements of s whose key is below q, and those whose key is above q
Below(s, q) == LET T(x) == x.k < q IN SelectSeq(s, T)
Above(s, q) == LET T(x) == x.k > q IN SelectSeq(s, T)

\* x satisfies the bound b as a lower bound, as an upper bound
AboveLower(x, b) ==
    \/ b.kind = "Unbounded"
    \/ b.kind = "Included" /\ x.k >= b.key
    \/ b.kind = "Excluded" /\ x.k > b.key
BelowUpper(x, b) ==
    \/ b.kind = "Unbounded"
    \/ b.kind = "Included" /\ x.k <= b.key
    \/ b.kind = "Excluded" /\ x.k < b.key
Within(s, sb, eb) ==
    LET T(x) == AboveLower(x, sb) /\ BelowUpper(x, eb) IN SelectSeq(s, T)

\* C1: after any sequence of the mutating calls, the vector of every set
\* involved (the set itself, the second set of an append before and after it,
\* the set split_off returns) is strictly ascending: a < b for every adjacent
\* pair.
C1_StrictlyAscending ==
    /\ StrictlyAscending(svs)
    /\ StrictlyAscending(call.other0)
    /\ StrictlyAscending(call.other1)
    /\ (call.op = "split_off" => StrictlyAscending(call.ret))

\* An append that merged two sets of two or more elements sharing a key.
C1_Witness ==
    /\ call.op = "append"
    /\ Len(call.self0) >= 2
    /\ Len(call.other0) >= 2
    /\ KeySet(call.self0) \cap KeySet(call.other0) # {}
    /\ KeySet(call.self0) # KeySet(call.other0)
    /\ Len(svs) = MaxKey

\* C2: a set that has only been inserted into has the len, the is_empty and
\* the iteration sequence of the reference ordered set given the same inserts
\* in the same order, in which an element replaces the one equal to it.
C2_LikeReferenceSet ==
    fresh =>
        /\ len(svs) = Cardinality(bset)
        /\ is_empty(svs) = (bset = {})
        /\ iter(svs) = RefIter(bset)

\* An insert of an element equal to a stored one with another value, below
\* the maximum of a set only inserted into.
C2_Witness ==
    /\ fresh
    /\ call.op = "insert"
    /\ Len(call.self0) >= 2
    /\ call.arg.k \in KeySet(call.self0)
    /\ call.arg \notin EltSet(call.self0)
    /\ call.arg.k < call.self0[Len(call.self0)].k

\* C3: A.is_subset(B) returns true if and only if every element of A is in B.
C3_IsSubsetIffSubset ==
    call.op = "is_subset" =>
        (call.ret <=> KeySet(call.self0) \subseteq KeySet(call.other0))

\* C4: A.is_superset(B) returns true if and only if every element of B is
\* in A.
C4_IsSupersetIffSuperset ==
    call.op = "is_superset" =>
        (call.ret <=> KeySet(call.other0) \subseteq KeySet(call.self0))

\* C5: A.is_disjoint(B) returns true if and only if A and B have no element
\* in common.
C5_IsDisjointIffNoCommon ==
    call.op = "is_disjoint" =>
        (call.ret <=> KeySet(call.self0) \cap KeySet(call.other0) = {})

\* An is_disjoint of two sets whose only common element is the last of both.
C5_Witness ==
    /\ call.op = "is_disjoint"
    /\ call.ret = FALSE
    /\ Len(call.self0) >= 2
    /\ Len(call.other0) >= 2
    /\ Cardinality(KeySet(call.self0) \cap KeySet(call.other0)) = 1
    /\ call.self0[1].k # call.other0[1].k

\* C6: insert returns true exactly when no element equal to the value was
\* stored (the length then grows by one and the value is contained), and
\* false exactly when one was (the length is then unchanged).
C6_InsertReturn ==
    call.op = "insert" =>
        LET present == call.arg.k \in KeySet(call.self0)
        IN  /\ call.ret = ~present
            /\ call.ret =>
                  /\ Len(svs) = Len(call.self0) + 1
                  /\ contains(svs, call.arg.k)
                  /\ call.arg \in EltSet(svs)
            /\ ~call.ret => Len(svs) = Len(call.self0)

\* An insert of a new element below the maximum: the binary-search path.
C6_Witness ==
    /\ call.op = "insert"
    /\ call.ret = TRUE
    /\ Len(call.self0) >= 2
    /\ call.arg.k < call.self0[Len(call.self0)].k
    /\ call.arg.k > call.self0[1].k

\* C7: replace of a value equal to a stored element returns that element and
\* puts the value in its place, every other element and the length unchanged;
\* with no equal element it returns None and the value stands between the
\* elements below it and those above it, in their previous order.
C7_ReplaceInPlace ==
    call.op = "replace" =>
        LET s0 == call.self0
            P  == {i \in 1..Len(s0) : s0[i].k = call.arg.k}
        IN  IF P # {}
            THEN \A i \in P :
                    /\ call.ret = Some(s0[i])
                    /\ svs = [s0 EXCEPT ![i] = call.arg]
            ELSE /\ call.ret = None
                 /\ svs = Below(s0, call.arg.k) \o <<call.arg>> \o Above(s0, call.arg.k)

\* A replace of the middle element of three by an equal one of another value.
C7_Witness ==
    /\ call.op = "replace"
    /\ Len(call.self0) = 3
    /\ call.arg.k = call.self0[2].k
    /\ call.arg # call.self0[2]

\* C8: remove and take of a key that matches no element return false and
\* None, and leave the vector as it was.
C8_AbsentIsNormal ==
    (call.op \in {"remove", "take"} /\ call.arg \notin KeySet(call.self0)) =>
        /\ svs = call.self0
        /\ call.op = "remove" => call.ret = FALSE
        /\ call.op = "take" => call.ret = None

\* A take of a key that lies between two stored elements.
C8_Witness ==
    /\ call.op = "take"
    /\ Len(call.self0) >= 2
    /\ call.arg \notin KeySet(call.self0)
    /\ call.arg > call.self0[1].k
    /\ call.arg < call.self0[Len(call.self0)].k

\* C9: take of a key that matches an element returns that element and removes
\* it alone, the others keeping their order; after it contains(key) is false
\* and a remove(key) returns false.
C9_TakeFound ==
    call.op = "take" =>
        \A i \in 1..Len(call.self0) :
            call.self0[i].k = call.arg =>
                /\ call.ret = Some(call.self0[i])
                /\ svs = SubSeq(call.self0, 1, i - 1)
                           \o SubSeq(call.self0, i + 1, Len(call.self0))
                /\ ~contains(svs, call.arg)
                /\ remove(svs, call.arg).ret = FALSE

\* A take of the middle element of three.
C9_Witness ==
    /\ call.op = "take"
    /\ Len(call.self0) = 3
    /\ call.arg = call.self0[2].k
    /\ Len(svs) = 2

\* C10: a range that does not panic yields, in their order, exactly the
\* elements that satisfy both bounds; an unbounded lower bound starts at
\* index 0 and an unbounded upper bound ends at the length.
C10_RangeYieldsWithin ==
    (call.op = "range" /\ ~call.ret.panic) =>
        LET sb == call.arg[1]
            eb == call.arg[2]
        IN  /\ call.ret.items = Within(call.self0, sb, eb)
            /\ sb.kind = "Unbounded" => call.ret.start = 0
            /\ eb.kind = "Unbounded" => call.ret.end = Len(call.self0)

\* A range from an inclusive bound that matches an element up to another
\* inclusive bound that matches one.
C10_Witness ==
    /\ call.op = "range"
    /\ ~call.ret.panic
    /\ call.arg[1].kind = "Included"
    /\ call.arg[2].kind = "Included"
    /\ call.arg[1].key \in KeySet(call.self0)
    /\ call.arg[2].key \in KeySet(call.self0)
    /\ call.arg[1].key < call.arg[2].key
    /\ Len(call.ret.items) >= 2
    /\ Len(call.ret.items) < Len(call.self0)

\* The number of elements of s below the lower bound b, and the number of
\* elements of s that satisfy the upper bound b
CountBelowLower(s, b) == Cardinality({i \in 1..Len(s) : ~AboveLower(s[i], b)})
CountBelowUpper(s, b) == Cardinality({i \in 1..Len(s) : BelowUpper(s[i], b)})

\* C11: range panics if the range start is after the range end: a range
\* whose lower-bound key is greater than its upper-bound key panics, whatever
\* the set.
C11_RangePanicsIfInverted ==
    (/\ call.op = "range"
     /\ call.arg[1].kind # "Unbounded"
     /\ call.arg[2].kind # "Unbounded"
     /\ call.arg[1].key > call.arg[2].key) => call.ret.panic

\* C12: range panics whenever the start index its lower bound resolves to
\* (the number of elements below the bound) exceeds the end index of its
\* upper bound (the number of elements the bound admits); it then returns no
\* range and leaves the set as it was.
C12_RangeFaultsOnInvertedIndices ==
    (/\ call.op = "range"
     /\ CountBelowLower(call.self0, call.arg[1])
            > CountBelowUpper(call.self0, call.arg[2])) =>
        /\ call.ret.panic
        /\ call.ret.start = CountBelowLower(call.self0, call.arg[1])
        /\ call.ret.end = CountBelowUpper(call.self0, call.arg[2])
        /\ call.ret.items = <<>>
        /\ svs = call.self0

\* A range over a set with an element between the inverted bound keys.
C12_Witness ==
    /\ call.op = "range"
    /\ call.ret.panic
    /\ call.arg[1].kind = "Included"
    /\ call.arg[2].kind = "Excluded"
    /\ call.arg[1].key > call.arg[2].key
    /\ call.ret.start > call.ret.end + 1
    /\ Len(call.self0) = MaxKey

\* The elements of s whose key is q or above
FromKey(s, q) == LET T(x) == x.k >= q IN SelectSeq(s, T)

\* C13: append(other) leaves other empty and self strictly ascending with
\* exactly the keys of both sets; every element of other is in self after it
\* (so for a key in both, the element kept is the one of other), and so is
\* every element of self whose key other does not have.
C13_AppendUnionOtherWins ==
    call.op = "append" =>
        /\ call.other1 = <<>>
        /\ StrictlyAscending(svs)
        /\ KeySet(svs) = KeySet(call.self0) \cup KeySet(call.other0)
        /\ EltSet(call.other0) \subseteq EltSet(svs)
        /\ \A x \in EltSet(call.self0) :
              x.k \notin KeySet(call.other0) => x \in EltSet(svs)

\* An append of a set that shares a key with self, with another value for it,
\* and has a key of its own, to a self that has a key of its own.
C13_Witness ==
    /\ call.op = "append"
    /\ \E x \in EltSet(call.self0), y \in EltSet(call.other0) : x.k = y.k /\ x # y
    /\ KeySet(call.self0) \ KeySet(call.other0) # {}
    /\ KeySet(call.other0) \ KeySet(call.self0) # {}

\* C14: split_off(key) leaves in self the elements below key and returns the
\* elements equal to key or above, in their order: self followed by the
\* returned set is the sequence before the call.
C14_SplitOffAtKey ==
    call.op = "split_off" =>
        /\ svs = Below(call.self0, call.arg)
        /\ call.ret = FromKey(call.self0, call.arg)
        /\ svs \o call.ret = call.self0

\* A split_off at the middle element of three.
C14_Witness ==
    /\ call.op = "split_off"
    /\ Len(call.self0) = 3
    /\ call.arg = call.self0[2].k
    /\ Len(call.ret) = 2

\* replace, and insert, called with each element of the batch in its order
RECURSIVE ReplaceEach(_, _)
ReplaceEach(s, batch) ==
    IF batch = <<>> THEN s
    ELSE ReplaceEach(replace(s, Head(batch)).vec, Tail(batch))

RECURSIVE InsertEach(_, _)
InsertEach(s, batch) ==
    IF batch = <<>> THEN s
    ELSE InsertEach(insert(s, Head(batch)).vec, Tail(batch))

\* C15: for every set and every batch, extend leaves the sequence that a
\* replace of each batch element in batch order leaves: a batch element
\* overwrites the stored element with its key, and of the batch elements with
\* one key the latest in the batch is kept.
C15_ExtendLikeReplaceEach ==
    call.op = "extend" => svs = ReplaceEach(call.self0, call.arg)

\* An extend that merges: the batch holds a key twice with two values, the
\* set holds that key too, and a batch element lies below the set's maximum.
C15_Witness ==
    /\ call.op = "extend"
    /\ Len(call.arg) = 3
    /\ Len(call.self0) >= 2
    /\ \E i, j \in 1..3 :
          /\ i < j
          /\ call.arg[i].k = call.arg[j].k
          /\ call.arg[i] # call.arg[j]
          /\ call.arg[i].k \in KeySet(call.self0)
          /\ call.arg[i].k < call.self0[Len(call.self0)].k

\* C16: an extend with a batch whose elements are all above the maximum of
\* the set leaves the sequence that an insert of each batch element in batch
\* order leaves, whatever the order of the batch and its repeated keys.
C16_ExtendAboveMaxLikeInsertEach ==
    (/\ call.op = "extend"
     /\ \A i \in 1..Len(call.arg) :
           \A x \in EltSet(call.self0) : call.arg[i].k > x.k) =>
        svs = InsertEach(call.self0, call.arg)

\* An extend of a non-empty set with an unsorted batch of three above its
\* maximum that holds a key twice with two values.
C16_Witness ==
    /\ call.op = "extend"
    /\ call.self0 # <<>>
    /\ Len(call.arg) = 3
    /\ \A i \in 1..3 : call.arg[i].k > call.self0[Len(call.self0)].k
    /\ call.arg[1].k = call.arg[3].k
    /\ call.arg[1] # call.arg[3]
    /\ call.arg[2].k < call.arg[1].k

\* The keys of s in its order
KeySeq(s) == [i \in 1..Len(s) |-> s[i].k]

\* C17: each set-algebra iterator yields, strictly ascending and so each
\* once, elements of its operands whose keys are exactly those of the
\* operation: A minus B for difference, the keys in exactly one of A and B
\* for symmetric_difference, the keys in both for intersection, the keys in
\* either for union.
C17_SetAlgebraYields ==
    LET A == KeySet(call.self0)
        B == KeySet(call.other0)
        Yielded(K) ==
            /\ StrictlyAscending(call.ret)
            /\ KeySet(call.ret) = K
            /\ EltSet(call.ret) \subseteq EltSet(call.self0) \cup EltSet(call.other0)
    IN  /\ call.op = "difference" => Yielded(A \ B)
        /\ call.op = "symmetric_difference" => Yielded((A \ B) \cup (B \ A))
        /\ call.op = "intersection" => Yielded(A \cap B)
        /\ call.op = "union" => Yielded(A \cup B)

\* A symmetric_difference of two sets that share a key and have each a key
\* of their own, the one of A below the shared key and the one of B above it.
C17_Witness ==
    /\ call.op = "symmetric_difference"
    /\ KeySet(call.self0) \cap KeySet(call.other0) # {}
    /\ Len(call.ret) = 2
    /\ call.ret[1] \in EltSet(call.self0)
    /\ call.ret[2] \in EltSet(call.other0)

\* C18: the elements intersection(A, B) yields and those difference(A, B)
\* yields are together the elements of A, and no key is in both.
C18_IntersectionAndDifferenceSplitA ==
    call.op = "intersection" =>
        LET d == DifferenceItems(difference(call.self0, call.other0))
        IN  /\ EltSet(call.ret) \cup EltSet(d) = EltSet(call.self0)
            /\ KeySet(call.ret) \cap KeySet(d) = {}

\* An intersection that yields part of A, B having a key A has not.
C18_Witness ==
    /\ call.op = "intersection"
    /\ call.ret # <<>>
    /\ Len(call.ret) < Len(call.self0)
    /\ KeySet(call.other0) \ KeySet(call.self0) # {}

\* C19: symmetric_difference(A, B) yields the elements that difference(A, B)
\* and difference(B, A) yield together.
C19_SymmetricDifferenceIsBothDifferences ==
    call.op = "symmetric_difference" =>
        EltSet(call.ret) =
            EltSet(DifferenceItems(difference(call.self0, call.other0)))
                \cup EltSet(DifferenceItems(difference(call.other0, call.self0)))

\* A symmetric_difference with an element of each side and a shared key
\* between them.
C19_Witness ==
    /\ call.op = "symmetric_difference"
    /\ Len(call.ret) = 2
    /\ call.ret[1] \in EltSet(call.other0)
    /\ call.ret[2] \in EltSet(call.self0)
    /\ KeySet(call.self0) \cap KeySet(call.other0) # {}

\* C20: when every element of B is an element of A, union(A, B) yields
\* exactly the key sequence of A.
C20_UnionWithSubsetIsA ==
    (call.op = "union" /\ KeySet(call.other0) \subseteq KeySet(call.self0)) =>
        KeySeq(call.ret) = KeySeq(call.self0)

\* A union of A with a non-empty B that has fewer keys, all of A, one of
\* them with another value than in A.
C20_Witness ==
    /\ call.op = "union"
    /\ call.other0 # <<>>
    /\ KeySet(call.other0) \subseteq KeySet(call.self0)
    /\ KeySet(call.other0) # KeySet(call.self0)
    /\ EltSet(call.other0) \ EltSet(call.self0) # {}

\* C21: between the next calls of an iteration (before the first, after any
\* number of them, after the last) the size hint of each of the four
\* iterators brackets the number of elements still to come: low is at most
\* that number and high, when there is one, at least.
C21_SizeHintBrackets ==
    (call.op = "iterating" /\ call.ret.at # "in_next") =>
        LET hint == size_hint(call.arg, call.ret.st)
            left == Len(Items(call.arg, call.ret.st))
        IN  /\ hint.low <= left
            /\ hint.high # None => left <= hint.high[1]

\* A difference in mid-iteration whose hint promises an element and allows
\* for more than will come.
C21_Witness ==
    /\ call.op = "iterating"
    /\ call.arg = "difference"
    /\ call.ret.at = "yielded"
    /\ DifferenceSizeHint(call.ret.st).low = 1
    /\ DifferenceSizeHint(call.ret.st).high[1] = 2
    /\ Len(DifferenceItems(call.ret.st)) = 1

\* C22: A & B, A | B, A ^ B and A - B are sets holding what intersection,
\* union, symmetric_difference and difference yield, in that order, and
\* neither operand is changed.
C22_OperatorsCollect ==
    /\ call.op = "bitand" =>
            call.ret = IntersectionItems(intersection(call.self0, call.other0))
    /\ call.op = "bitor" =>
            call.ret = UnionItems(union(call.self0, call.other0))
    /\ call.op = "bitxor" =>
            call.ret = SymmetricDifferenceItems(symmetric_difference(call.self0, call.other0))
    /\ call.op = "sub" =>
            call.ret = DifferenceItems(difference(call.self0, call.other0))
    /\ call.op \in {"bitand", "bitor", "bitxor", "sub"} =>
            svs = call.self0 /\ call.other1 = call.other0

\* A - B with elements on both sides of the answer: some of A stay, some of
\* A go, and B has an element A has not.
C22_Witness ==
    /\ call.op = "sub"
    /\ call.ret # <<>>
    /\ Len(call.ret) < Len(call.self0)
    /\ KeySet(call.other0) \ KeySet(call.self0) # {}

\* C23: whatever operations built the set, collecting its elements into a
\* reference ordered set and converting that back, with no sort on the way
\* back, gives the sequence the set had.
C23_RoundTripViaReference ==
    call.op = "roundtrip" => call.ret = call.self0

\* A round trip of a set of three elements that came out of operations
\* other than insert alone.
C23_Witness ==
    /\ call.op = "roundtrip"
    /\ Len(call.self0) = 3
    /\ ~fresh
    /\ call.ret = call.self0

\* s is t with some elements left out: every element of s is one of t, and
\* two elements of s stand in s the way they stand in t.
Position(t, x) == CHOOSE i \in 1..Len(t) : t[i] = x

IsSubsequence(s, t) ==
    /\ EltSet(s) \subseteq EltSet(t)
    /\ \A i, j \in 1..Len(s) : i < j => Position(t, s[i]) < Position(t, s[j])

\* C24: retain(predicate) leaves exactly the elements the predicate accepts,
\* in the order they had: the subsequence of the original the predicate
\* selects.
C24_RetainSelects ==
    call.op = "retain" =>
        /\ EltSet(svs) = {x \in EltSet(call.self0) : x \in call.arg}
        /\ IsSubsequence(svs, call.self0)

\* A retain of three elements that drops the middle one.
C24_Witness ==
    /\ call.op = "retain"
    /\ Len(call.self0) = 3
    /\ call.self0[2] \notin call.arg
    /\ svs = <<call.self0[1], call.self0[3]>>

\* x is an element of s that no element of s is below, or above
IsMin(s, x) == x \in EltSet(s) /\ \A y \in EltSet(s) : x.k <= y.k
IsMax(s, x) == x \in EltSet(s) /\ \A y \in EltSet(s) : y.k <= x.k

\* C25: in every state first is the minimum and last the maximum, each None
\* exactly when the set is empty, and so are the values the first and last
\* calls return; pop_last returns the maximum and leaves the others as they
\* were, and on an empty set returns None and changes nothing.
C25_FirstLastPopLast ==
    /\ (first(svs) = None) <=> (svs = <<>>)
    /\ (last(svs) = None) <=> (svs = <<>>)
    /\ svs # <<>> => IsMin(svs, first(svs)[1]) /\ IsMax(svs, last(svs)[1])
    /\ call.op = "first" =>
            IF call.self0 = <<>> THEN call.ret = None
            ELSE call.ret # None /\ IsMin(call.self0, call.ret[1])
    /\ call.op = "last" =>
            IF call.self0 = <<>> THEN call.ret = None
            ELSE call.ret # None /\ IsMax(call.self0, call.ret[1])
    /\ call.op = "pop_last" =>
            IF call.self0 = <<>> THEN call.ret = None /\ svs = <<>>
            ELSE /\ call.ret # None
                 /\ IsMax(call.self0, call.ret[1])
                 /\ svs \o call.ret = call.self0

\* A pop_last that took the largest of three elements.
C25_Witness ==
    /\ call.op = "pop_last"
    /\ Len(call.self0) = 3
    /\ Len(svs) = 2
    /\ call.ret = Some(call.self0[3])

\* s is what is left of t once a cursor has moved forward over it
IsSuffix(s, t) ==
    /\ Len(s) <= Len(t)
    /\ s = SubSeq(t, Len(t) - Len(s) + 1, Len(t))

\* Every next of the MergeIter m, down to the one that returns None, moves
\* no cursor backwards and at least one forwards, and None comes only when
\* both sides are exhausted.
RECURSIVE MergeScanAdvances(_)
MergeScanAdvances(m) ==
    LET n == MergeIterNext(m)
    IN  IF n.item = None THEN m.left = <<>> /\ m.right = <<>>
        ELSE /\ IsSuffix(n.m.left, m.left)
             /\ IsSuffix(n.m.right, m.right)
             /\ Len(n.m.left) + Len(n.m.right) < Len(m.left) + Len(m.right)
             /\ MergeScanAdvances(n.m)

\* The iterator the caller holds is at a place of its two inputs, and has
\* not taken more turns than they have elements.
ScanWithinInputs ==
    /\ IsSuffix(call.ret.st.left, call.self0)
    /\ IsSuffix(call.ret.st.right, call.other0)
    /\ call.ret.steps <= Len(call.self0) + Len(call.other0)

\* A turn of the loop moved no cursor backwards; it moved one forwards,
\* unless it found both sides exhausted and ended the iteration.
TurnAdvances ==
    /\ IsSuffix(call'.ret.st.left, call.ret.st.left)
    /\ IsSuffix(call'.ret.st.right, call.ret.st.right)
    /\ IF call'.ret.at = "done"
       THEN /\ call.ret.st.left = <<>> /\ call.ret.st.right = <<>>
            /\ call'.ret.steps = call.ret.steps
       ELSE /\ Len(call'.ret.st.left) + Len(call'.ret.st.right)
                    < Len(call.ret.st.left) + Len(call.ret.st.right)
            /\ call'.ret.steps = call.ret.steps + 1

\* C26: the two-cursor scan terminates.  Each turn of an OperationInner
\* iteration and each next of the MergeIter of append and extend moves at
\* least one cursor forwards and none backwards, so an iteration over inputs
\* of m and n elements takes at most m + n turns and then ends.
C26_ScanTerminates ==
    [][/\ call'.op = "iterating" => ScanWithinInputs'
       /\ (call.op = "iterating" /\ call'.op = "iterating") => TurnAdvances
       /\ call'.op = "append" =>
                MergeScanAdvances(MergeIter(call'.self0, call'.other0))
       /\ call'.op = "extend" =>
                MergeScanAdvances(MergeIter(call'.self0, sort(call'.arg)))]_vars

\* An iteration over two sets with no key in common that came to its end:
\* it took as many turns as the two sets have elements.
C26_Witness ==
    /\ call.op = "iterating"
    /\ call.ret.at = "done"
    /\ Len(call.self0) >= 2
    /\ call.other0 # <<>>
    /\ call.ret.steps = Len(call.self0) + Len(call.other0)

\* The operations that take their sets by shared reference
ReadOnlyOps ==
    {"contains", "get", "range", "iter", "len", "is_empty", "first", "last",
     "is_disjoint", "is_subset", "is_superset",
     "difference", "symmetric_difference", "intersection", "union", "iterating"}

\* C27: contains, get, range, iter, len, is_empty, first, last, is_disjoint,
\* is_subset, is_superset and the traversal of a difference,
\* symmetric_difference, intersection or union, at any point of it and at
\* its end, leave the vector of the set and that of the other set as they
\* were.
C27_ReadOnlyLeavesSets ==
    call.op \in ReadOnlyOps =>
        /\ svs = call.self0
        /\ call.other1 = call.other0

\* A symmetric_difference of two sets with elements, traversed to its end.
C27_Witness ==
    /\ call.op = "iterating"
    /\ call.arg = "symmetric_difference"
    /\ call.ret.at = "done"
    /\ call.ret.steps >= 3
    /\ svs = call.self0
    /\ svs # <<>>
    /\ call.other1 = call.other0
    /\ call.other1 # <<>>

\* The sets that at most n insert and remove calls on a new set give
RECURSIVE Built(_)
Built(n) ==
    IF n = 0 THEN {<<>>}
    ELSE LET B == Built(n - 1)
         IN  B \cup {insert(s, e).vec : s \in B, e \in Elts}
               \cup {remove(s, q).vec : s \in B, q \in Keys}

InsertRemoveBuilt == Built(MaxCalls)

\* Those of them that hold the keys K, for each set of keys K
BuiltWithKeys == [K \in SUBSET Keys |-> {o \in InsertRemoveBuilt : KeySet(o) = K}]

\* C28: the vector is a canonical form of the set of keys.  Whatever calls
\* brought the set to the state they left it in, a set that a sequence of
\* insert and remove calls brought to the same set of keys has the same
\* sequence of keys, and the two compare equal.
C28_Canonical ==
    call.op \in {"new", "none"} =>
        \A o \in BuiltWithKeys[KeySet(svs)] :
            KeySeq(o) = KeySeq(svs) /\ eq(svs, o)

\* Two ways to the keys 1 and 3: the set came out of calls that were not
\* all inserts, and inserting 3 and then 1 gives the same keys.
C28_Witness ==
    /\ Idle
    /\ ~fresh
    /\ KeySeq(svs) = <<1, 3>>
    /\ \E v, w \in Vals :
            LET o == insert(insert(<<>>, [k |-> 3, v |-> v]).vec, [k |-> 1, v |-> w]).vec
            IN  o \in InsertRemoveBuilt /\ eq(svs, o)

\* C29: whichever way extend_with_vec takes (nothing for an empty batch,
\* insert for one element, the batch as the vector of an empty set, dedup
\* and append above the maximum, the merge otherwise), the set ends as the
\* merge of the set with the stably sorted batch would leave it.
C29_ExtendLikeFullMerge ==
    call.op = "extend" =>
        svs = MergeCollect(MergeIter(call.self0, sort(call.arg)))

\* An extend that took the append way and had duplicates to drop: the batch
\* lies above the maximum of a set with elements and holds a key twice.
C29_Witness ==
    /\ call.op = "extend"
    /\ call.self0 # <<>>
    /\ Len(call.arg) >= 2
    /\ Lt(call.self0[Len(call.self0)], sort(call.arg)[1])
    /\ FirstDup(sort(call.arg)) # None
    /\ Len(svs) = Len(call.self0) + Len(call.arg) - 1

\* C30: range does not panic on well ordered bounds.  For every set and
\* every pair of bounds, inclusive or exclusive, of which one is unbounded
\* or the lower key is below the upper key, the start index is at most the
\* end index and range returns a range.
C30_RangeOnOrderedBounds ==
    (/\ call.op = "range"
     /\ \/ call.arg[1].kind = "Unbounded"
        \/ call.arg[2].kind = "Unbounded"
        \/ call.arg[1].key < call.arg[2].key) =>
        /\ ~call.ret.panic
        /\ call.ret.start <= call.ret.end

\* The tightest case: two exclusive bounds at neighbouring keys the set
\* holds, so that start and end meet.
C30_Witness ==
    /\ call.op = "range"
    /\ call.arg[1].kind = "Excluded"
    /\ call.arg[2].kind = "Excluded"
    /\ call.arg[1].key + 1 = call.arg[2].key
    /\ Len(call.self0) = MaxKey
    /\ ~call.ret.panic
    /\ call.ret.start = call.ret.end
    /\ call.ret.start > 0
====
